---- MODULE Spec2Model ----
(***************************************************************************)
(* A model of src/src/index.js: the USChoropleth class, the page script    *)
(* that owns the global `app`, and the promise callbacks of execute().     *)
(*                                                                         *)
(* The file holds the class and the page script twice; the second copy     *)
(* (from line 297) differs in defaults (palette, stroke) and draws no mesh, *)
(* and has the same getStatisLevel, getScaleFunction, getCsv, getJson and   *)
(* handlers.  The model follows the first copy.  The zoom and #reset        *)
(* handlers set only the transform of #usMap, which the model does not      *)
(* hold.                                                                    *)
(*                                                                         *)
(* The promise callbacks of one fulfilled d3.csv (the Map, the join, the    *)
(* drawing) run as microtasks of one turn of the event loop: no handler     *)
(* runs between them, so they are one action, CsvLoaded.                    *)
(*                                                                         *)
(* JavaScript values are records [t, n, s]: t is the type tag, n the value *)
(* of a number, s the characters of a string (a sequence of one-character  *)
(* strings).  Numbers are integers: the cells of the modelled files are    *)
(* written over the alphabet of digits, "-" and letters, on which          *)
(* parseFloat yields integers.                                             *)
(***************************************************************************)
EXTENDS Integers, Sequences, FiniteSets, TLC

\* ------------------------------------------------------------ bounds

\* execute() calls in one run (the one at page load included)
MaxExec == 2
\* USChoropleth instances in one run (the one at page load included)
MaxInst == 2
\* calls of a setter outside the page's handlers that are followed
MaxSet == 1

\* ------------------------------------------------------ JavaScript values

Undefined == [t |-> "undefined", n |-> 0, s |-> <<>>]
NaN == [t |-> "NaN", n |-> 0, s |-> <<>>]
Num(n) == [t |-> "number", n |-> n, s |-> <<>>]
Str(s) == [t |-> "string", n |-> 0, s |-> s]

IsNum(v) == v.t = "number"

\* ToBoolean(v) is false: undefined, NaN, 0 and the empty string
Falsy(v) ==
  \/ v.t \in {"undefined", "NaN"}
  \/ v.t = "number" /\ v.n = 0
  \/ v.t = "string" /\ v.s = <<>>

\* a || b
OrElse(a, b) == IF Falsy(a) THEN b ELSE a

Digits == <<"0", "1", "2", "3", "4", "5", "6", "7", "8", "9">>

IsDigit(c) == \E d \in 1..10 : Digits[d] = c

DigitVal(c) == (CHOOSE d \in 1..10 : Digits[d] = c) - 1

RECURSIVE NatToStr(_)
NatToStr(n) ==
  IF n < 10 THEN <<Digits[n + 1]>>
  ELSE NatToStr(n \div 10) \o <<Digits[(n % 10) + 1]>>

\* ToString of an integer number
IntToStr(n) == IF n < 0 THEN <<"-">> \o NatToStr(-n) ELSE NatToStr(n)

\* ToString(v), as a sequence of chunks whose concatenation is the text
ToStr(v) ==
  CASE v.t = "undefined" -> <<"undefined">>
    [] v.t = "NaN" -> <<"NaN">>
    [] v.t = "number" -> IntToStr(v.n)
    [] OTHER -> v.s

RECURSIVE SkipSpace(_)
SkipSpace(s) ==
  IF s # <<>> /\ Head(s) = " " THEN SkipSpace(Tail(s)) ELSE s

\* the longest prefix of s made of digits
RECURSIVE DigitPrefix(_)
DigitPrefix(s) ==
  IF s # <<>> /\ IsDigit(Head(s))
    THEN <<Head(s)>> \o DigitPrefix(Tail(s))
    ELSE <<>>

RECURSIVE DigitsVal(_, _)
DigitsVal(s, acc) ==
  IF s = <<>> THEN acc ELSE DigitsVal(Tail(s), acc * 10 + DigitVal(Head(s)))

\* the number a string starts with: blanks, a sign, digits; NaN without digits
ParseNumber(chars) ==
  LET s == SkipSpace(chars)
      neg == s # <<>> /\ Head(s) = "-"
      body == IF s # <<>> /\ Head(s) \in {"-", "+"} THEN Tail(s) ELSE s
      ds == DigitPrefix(body)
  IN IF ds = <<>> THEN NaN
     ELSE Num(IF neg THEN -DigitsVal(ds, 0) ELSE DigitsVal(ds, 0))

\* parseInt(v): v is converted to a string, then parsed in radix 10
ParseInt(v) ==
  IF v.t \in {"undefined", "NaN"} THEN NaN ELSE ParseNumber(ToStr(v))

\* parseFloat(v), on strings without "." or an exponent
ParseFloat(v) ==
  IF v.t \in {"undefined", "NaN"} THEN NaN ELSE ParseNumber(ToStr(v))

\* a * k for a number or NaN a
Times(a, k) == IF IsNum(a) THEN Num(a.n * k) ELSE NaN

\* ------------------------------------------------------------ Map

\* A JavaScript Map: its entries [k, v] in insertion order, keys unique.
MapHas(m, k) == \E i \in DOMAIN m : m[i].k = k

\* Map.prototype.get: undefined for a key the map does not hold
MapGet(m, k) ==
  IF MapHas(m, k) THEN m[CHOOSE i \in DOMAIN m : m[i].k = k].v ELSE Undefined

\* Map.prototype.set: a key already held keeps its place and takes the value
MapSet(m, k, v) ==
  IF MapHas(m, k)
    THEN [i \in DOMAIN m |-> IF m[i].k = k THEN [k |-> k, v |-> v] ELSE m[i]]
    ELSE Append(m, [k |-> k, v |-> v])

\* new Map(entries): the entries are set one by one, in order
RECURSIVE NewMapFrom(_, _)
NewMapFrom(m, entries) ==
  IF entries = <<>> THEN m
  ELSE NewMapFrom(MapSet(m, Head(entries).k, Head(entries).v), Tail(entries))

NewMap(entries) == NewMapFrom(<<>>, entries)

MapKeys(m) == {m[i].k : i \in DOMAIN m}

\* ------------------------------------------------------------ USChoropleth

\* new USChoropleth(title, fileUrl, indexColName, dataColName)
NewUSChoropleth(title, fileUrl, indexColName, dataColName) ==
  [title |-> title,
   mapUrl |-> "/static/counties-albers-10m.json",
   fileUrl |-> fileUrl,
   indexColName |-> indexColName,
   dataColName |-> dataColName,
   scaleFunction |-> "scaleSequential",
   interpolateColor |-> "interpolateBlues",
   legendStep |-> 6,
   statisLevel |-> "states",
   strokeColor |-> "#212121"]

\* StatesFunc without the factor 1000
StatesFuncUnscaled(d) == ParseInt(OrElse(d, Num(0)))

\* the function getStatisLevel() stores in obj.func for "states"
StatesFunc(d) == Times(ParseInt(OrElse(d, Num(0))), 1000)

\* the function getStatisLevel() stores in obj.func for "counties"
CountiesFunc(d) == ParseInt(OrElse(d, Num(0)))

\* getStatisLevel(): func names the closure, "undefined" when none is set
getStatisLevel(this) ==
  [key |-> this.statisLevel,
   func |-> IF this.statisLevel = "states" THEN "states"
            ELSE IF this.statisLevel = "counties" THEN "counties"
            ELSE "undefined"]

\* statisLevel.func(d), for a func that is a function
CallFunc(statisLevel, d) ==
  IF statisLevel.func = "states" THEN StatesFunc(d) ELSE CountiesFunc(d)

\* row[col]: undefined when the row has no such column
Cell(row, col) == IF col \in DOMAIN row THEN Str(row[col]) ELSE Undefined

\* getCsv with the rows left out whose key or value is no number
getCsvDropsBadRows(this, csv) ==
  NewMap(SelectSeq(
    [i \in DOMAIN csv |->
      [k |-> ParseInt(Cell(csv[i], this.indexColName)),
       v |-> ParseFloat(Cell(csv[i], this.dataColName))]],
    LAMBDA entry : IsNum(entry.k) /\ IsNum(entry.v)))

\* getCsv()'s callback: one entry per row, no row is left out
getCsv(this, csv) ==
  NewMap([i \in DOMAIN csv |->
            [k |-> ParseInt(Cell(csv[i], this.indexColName)),
             v |-> ParseFloat(Cell(csv[i], this.dataColName))]])

\* the numbers among the values: d3.min and d3.max skip undefined and NaN
Numbers(values) == {values[i].n : i \in {j \in DOMAIN values : IsNum(values[j])}}

d3min(values) ==
  IF Numbers(values) = {} THEN Undefined
  ELSE Num(CHOOSE m \in Numbers(values) : \A n \in Numbers(values) : m <= n)

d3max(values) ==
  IF Numbers(values) = {} THEN Undefined
  ELSE Num(CHOOSE m \in Numbers(values) : \A n \in Numbers(values) : m >= n)

\* getScaleFunction(usData): the scale built over [d3.min || 1, d3.max]
getScaleFunction(this, usData) ==
  [scale |-> this.scaleFunction,
   lo |-> OrElse(d3min(usData), Num(1)),
   hi |-> d3max(usData),
   pal |-> this.interpolateColor]

\* what a d3 sequential scale returns for undefined or NaN: its `unknown`
Unknown ==
  [known |-> FALSE, pal |-> "", scale |-> "", lo |-> Undefined,
   hi |-> Undefined, at |-> Undefined]

\* a sequential scale without `unknown`: the interpolator is asked for the
\* colour at NaN when the value is no number
ColorScaleNoUnknown(cs, v) ==
  [known |-> TRUE, pal |-> cs.pal, scale |-> cs.scale,
   lo |-> cs.lo, hi |-> cs.hi,
   at |-> IF ~IsNum(cs.hi) \/ ~IsNum(v) THEN NaN
          ELSE IF cs.lo = cs.hi THEN Str(<<"0", ".", "5">>)
          ELSE v]

\* colorScale(v): `unknown` for a value that is no number; else the colour
\* the interpolator gives at v's place in the domain (at NaN when the upper
\* bound is undefined, at 0.5 when the domain is a single point)
ColorScale(cs, v) ==
  IF ~IsNum(v) THEN Unknown
  ELSE [known |-> TRUE, pal |-> cs.pal, scale |-> cs.scale,
        lo |-> cs.lo, hi |-> cs.hi,
        at |-> IF ~IsNum(cs.hi) THEN NaN
               ELSE IF cs.lo = cs.hi THEN Str(<<"0", ".", "5">>)
               ELSE v]

\* ------------------------------------------------------------ the files served

MapUrl == "/static/counties-albers-10m.json"
PopulationUrl == "/static/PopulationEstimates.csv"
UnemploymentUrl == "./static/unemployment-x.csv"

\* a geometry of a topology's collection: its id and its properties.name
Geometry(id, name) == [id |-> id, name |-> name]

\* a row of PopulationEstimates.csv, and one of unemployment-x.csv
PopulationRow(fips, births) == [FIPS |-> fips, Births_2016 |-> births]
UnemploymentRow(id, rate) == [id |-> id, rate |-> rate]

\* json.objects of the topologies the map URL may serve
Topologies ==
  { [states |-> <<Geometry(Str(<<"1">>), "Alabama"),
                  Geometry(Str(<<"0", "2">>), "Alaska")>>,
     counties |-> <<Geometry(Str(<<"1", "0", "0", "1">>), "Autauga"),
                    Geometry(Str(<<"0", "1", "0", "0", "3">>), "Baldwin")>>,
     nation |-> <<Geometry(Undefined, "United States")>>],
    [states |-> <<Geometry(Str(<<>>), "Nameless"),
                  Geometry(Str(<<"a", "1">>), "Alpha"),
                  Geometry(Num(2), "Alaska")>>,
     counties |-> <<>>,
     nation |-> <<>>],
    [counties |-> <<Geometry(Str(<<"1", "0", "0", "1">>), "Autauga")>>] }

\* the rows PopulationEstimates.csv may hold
PopulationFiles ==
  { <<PopulationRow(<<"0", "1", "0", "0", "0">>, <<"3">>),
      PopulationRow(<<"0", "2", "0", "0", "0">>, <<"-", "1">>)>>,
    <<PopulationRow(<<"0", "1", "0", "0", "1">>, <<"5">>),
      PopulationRow(<<"0", "1", "0", "0", "3">>, <<"4">>)>>,
    <<PopulationRow(<<"a">>, <<"2">>),
      PopulationRow(<<"0", "1", "0", "0", "0">>, <<"1">>),
      PopulationRow(<<"0", "1", "0", "0", "0">>, <<"0">>),
      PopulationRow(<<"0">>, <<"7">>),
      PopulationRow(<<"0", "2", "0", "0", "0">>, <<>>)>> }

\* the rows unemployment-x.csv may hold
UnemploymentFiles ==
  { <<UnemploymentRow(<<"0", "1", "0", "0", "1">>, <<"5">>),
      UnemploymentRow(<<"0", "1", "0", "0", "5">>, <<"4">>)>>,
    <<UnemploymentRow(<<"1", "0", "0", "1">>, <<"x">>),
      UnemploymentRow(<<"b">>, <<"7">>)>> }

\* ------------------------------------------------------------ the page

\* the keys of colorMap and funcMap a user selects, and what they map to
Colors == {"blue", "orange", "green", "grey", "purple", "red"}
colorMap(color) ==
  CASE color = "blue" -> "interpolateBlues"
    [] color = "orange" -> "interpolateOranges"
    [] color = "green" -> "interpolateGreens"
    [] color = "grey" -> "interpolateGreys"
    [] color = "purple" -> "interpolatePurples"
    [] OTHER -> "interpolateReds"

Funcs == {"seque", "sqrt", "pow", "log"}
funcMap(func) ==
  CASE func = "seque" -> "scaleSequential"
    [] func = "sqrt" -> "scaleSequentialSqrt"
    [] func = "pow" -> "scaleSequentialPow"
    [] OTHER -> "scaleSequentialLog"

\* the values #statisLevel may hand to setStatisLevel
Levels == {"states", "counties", "nation", "zip"}

\* the values of #titleVal
TitleVals == {"My title"}

VARIABLES
  topo,       \* json.objects of the file at MapUrl
  files,      \* the rows of the csv file at each URL
  insts,      \* the USChoropleth instances made so far
  app,        \* the global app: an index of insts
  clickCount, \* the global clickCount
  inflight,   \* the execute() calls whose loads are pending
  nexec,      \* execute() calls so far
  requested,  \* the configuration of app at its latest execute()
  csv,        \* the rows the latest fulfilled d3.csv gave, and their Map
  data,       \* the value the latest fulfilled getJson() gave, if any
  dom,        \* #title and the children of the svg
  shown,      \* which execute() drew dom last, with which configuration
  errors,     \* the rejections no handler took
  nset        \* calls of a setter made outside the page's handlers

vars ==
  <<topo, files, insts, app, clickCount, inflight, nexec, requested, csv,
    data, dom, shown, errors, nset>>

\* what a request asks for: the fields of an instance a drawn map depends on
Config(this) ==
  [title |-> this.title, fileUrl |-> this.fileUrl,
   statisLevel |-> this.statisLevel, scaleFunction |-> this.scaleFunction,
   interpolateColor |-> this.interpolateColor]

\* getJson()'s inner callback throws a TypeError: json.objects[key] is
\* undefined, or statisLevel.func is called and is undefined
JoinThrows(this, json) ==
  \/ getStatisLevel(this).key \notin DOMAIN json
  \/ /\ getStatisLevel(this).func = "undefined"
     /\ json[getStatisLevel(this).key] # <<>>

\* getJson with the features that have no value left out of usStateID
getJsonSkipsMissing(this, json, column) ==
  LET statisLevel == getStatisLevel(this)
      geometries == json[statisLevel.key]
      joined == [i \in DOMAIN geometries |->
                  MapGet(column, CallFunc(statisLevel, geometries[i].id))]
  IN [us |-> json,
      column |-> column,
      usStateID |-> SelectSeq(joined, LAMBDA v : v # Undefined),
      statisLevel |-> statisLevel]

\* getJson with the collection walked from its last geometry to its first
getJsonReversed(this, json, column) ==
  LET statisLevel == getStatisLevel(this)
      geometries == json[statisLevel.key]
  IN [us |-> json,
      column |-> column,
      usStateID |-> [i \in DOMAIN geometries |->
                      MapGet(column,
                        CallFunc(statisLevel,
                          geometries[Len(geometries) + 1 - i].id))],
      statisLevel |-> statisLevel]

\* getJson()'s inner callback: the object the promise is fulfilled with
getJson(this, json, column) ==
  LET statisLevel == getStatisLevel(this)
      geometries == json[statisLevel.key]
  IN [us |-> json,
      column |-> column,
      usStateID |-> [i \in DOMAIN geometries |->
                      MapGet(column, CallFunc(statisLevel, geometries[i].id))],
      statisLevel |-> statisLevel]

\* topojson.mesh(data.us, data.us.objects.states, ...) throws a TypeError
MeshThrows(d) == "states" \notin DOMAIN d.us

\* the text of a feature's <title>
TitleText(d, g) ==
  <<g.name, ", ">> \o ToStr(MapGet(d.column, CallFunc(d.statisLevel, g.id)))

\* UsMap with the codec of the states level used for every collection
UsMapStatesCodec(this, d, colorScale) ==
  LET features == d.us[d.statisLevel.key]
  IN [i \in DOMAIN features |->
       [fill |-> ColorScale(colorScale,
                   MapGet(d.column, StatesFunc(features[i].id))),
        stroke |-> this.strokeColor,
        title |-> TitleText(d, features[i])]]

\* the paths of #usMap, one per feature of the selected collection
UsMap(this, d, colorScale) ==
  LET features == d.us[d.statisLevel.key]
  IN [i \in DOMAIN features |->
       [fill |-> ColorScale(colorScale,
                   MapGet(d.column, CallFunc(d.statisLevel, features[i].id))),
        stroke |-> this.strokeColor,
        title |-> TitleText(d, features[i])]]

EmptyDom == [title |-> "", mesh |-> <<>>, usMap |-> <<>>, legend |-> <<>>]

\* execute()'s callback: the title, the cleared svg, then the mesh, the map
\* and the legend; a throw of topojson.mesh leaves the title and an empty svg
Render(this, d) ==
  IF MeshThrows(d) THEN [EmptyDom EXCEPT !.title = this.title]
  ELSE [title |-> this.title,
        mesh |-> <<this.strokeColor>>,
        usMap |-> UsMap(this, d, getScaleFunction(this, d.usStateID)),
        legend |-> <<[title |-> this.title, cells |-> this.legendStep,
                      scale |-> getScaleFunction(this, d.usStateID)]>>]

\* ------------------------------------------------------------ actions

\* the page as its script leaves it: app made, execute() called once
Init ==
  /\ topo \in Topologies
  /\ \E p \in PopulationFiles, u \in UnemploymentFiles :
       files = [url \in {PopulationUrl, UnemploymentUrl} |->
                 IF url = PopulationUrl THEN p ELSE u]
  /\ insts = <<[NewUSChoropleth("US birth number by state (2016)",
                                PopulationUrl, "FIPS", "Births_2016")
                EXCEPT !.strokeColor = "white"]>>
  /\ app = 1
  /\ clickCount = 0
  /\ inflight = {[id |-> 1, inst |-> 1, phase |-> "json", url |-> MapUrl]}
  /\ nexec = 1
  /\ requested = Config(insts[1])
  /\ csv = <<>>
  /\ data = <<>>
  /\ dom = EmptyDom
  /\ shown = [exec |-> 0, config |-> <<>>]
  /\ errors = {}
  /\ nset = 0

\* execute() with d3.json and d3.csv both sent at once
ExecuteSendsBoth(is, i) ==
  /\ nexec < MaxExec
  /\ nexec' = nexec + 1
  /\ inflight' = inflight \cup
       {[id |-> nexec + 1, inst |-> i, phase |-> "csv", url |-> is[i].fileUrl]}
  /\ requested' = Config(is[i])
  /\ insts' = is

\* execute() on instance i of the instances is: d3.json(this.mapUrl) is sent
Execute(is, i) ==
  /\ nexec < MaxExec
  /\ nexec' = nexec + 1
  /\ inflight' = inflight \cup
       {[id |-> nexec + 1, inst |-> i, phase |-> "json", url |-> is[i].mapUrl]}
  /\ requested' = Config(is[i])
  /\ insts' = is

\* #colorDropDown change
ColorChange(color) ==
  /\ Execute([insts EXCEPT ![app].interpolateColor = colorMap(color)], app)
  /\ UNCHANGED <<topo, files, app, clickCount, csv, data, dom, shown, errors,
               nset>>

\* #funcDropDown change
FuncChange(func) ==
  /\ Execute([insts EXCEPT ![app].scaleFunction = funcMap(func)], app)
  /\ UNCHANGED <<topo, files, app, clickCount, csv, data, dom, shown, errors,
               nset>>

\* #statisLevel change
StatisLevelChange(level) ==
  /\ Execute([insts EXCEPT ![app].statisLevel = level], app)
  /\ UNCHANGED <<topo, files, app, clickCount, csv, data, dom, shown, errors,
               nset>>

\* #submit click
Submit(title) ==
  /\ Execute([insts EXCEPT ![app].title = title], app)
  /\ UNCHANGED <<topo, files, app, clickCount, csv, data, dom, shown, errors,
               nset>>

\* the instance #toggle makes on its click number n
ToggleApp(n) ==
  LET made ==
        IF n % 2 = 0
          THEN NewUSChoropleth("US birth number by state (2016)",
                               PopulationUrl, "FIPS", "Births_2016")
          ELSE NewUSChoropleth("Unemployment rate by counties",
                               UnemploymentUrl, "id", "rate")
  IN [made EXCEPT
        !.statisLevel = IF made.fileUrl = PopulationUrl THEN "states"
                        ELSE "counties",
        !.strokeColor = "white"]

\* #toggle click
Toggle ==
  /\ Len(insts) < MaxInst
  /\ clickCount' = clickCount + 1
  /\ app' = Len(insts) + 1
  /\ Execute(Append(insts, ToggleApp(clickCount + 1)), Len(insts) + 1)
  /\ UNCHANGED <<topo, files, csv, data, dom, shown, errors, nset>>

\* d3.json is fulfilled for e: getCsv() sends d3.csv(this.fileUrl)
JsonLoaded(e) ==
  /\ e.phase = "json"
  /\ inflight' = (inflight \ {e}) \cup
       {[e EXCEPT !.phase = "csv", !.url = insts[e.inst].fileUrl]}
  /\ UNCHANGED <<topo, files, insts, app, clickCount, nexec, requested, csv,
                 data, dom, shown, errors, nset>>

\* LoadFailed with the title and the svg cleared on the failure
LoadFailedClears(e) ==
  /\ inflight' = inflight \ {e}
  /\ errors' = errors \cup {[exec |-> e.id, kind |-> "fetch", at |-> e.phase]}
  /\ dom' = EmptyDom
  /\ UNCHANGED <<topo, files, insts, app, clickCount, nexec, requested, csv,
                 data, shown, nset>>

\* d3.json or d3.csv is rejected for e: nothing catches it
LoadFailed(e) ==
  /\ inflight' = inflight \ {e}
  /\ errors' = errors \cup {[exec |-> e.id, kind |-> "fetch", at |-> e.phase]}
  /\ UNCHANGED <<topo, files, insts, app, clickCount, nexec, requested, csv,
                 data, dom, shown, nset>>

\* d3.csv is fulfilled for e: the Map is built, the join is made and, in the
\* same turn of the event loop, execute()'s callback draws
CsvLoaded(e) ==
  LET this == insts[e.inst]
      column == getCsv(this, files[e.url])
      d == getJson(this, topo, column)
  IN /\ e.phase = "csv"
     /\ inflight' = inflight \ {e}
     /\ csv' = <<[rows |-> files[e.url], indexColName |-> this.indexColName,
                  dataColName |-> this.dataColName, column |-> column]>>
     /\ IF JoinThrows(this, topo)
          THEN /\ errors' = errors \cup
                    {[exec |-> e.id, kind |-> "TypeError", at |-> "getJson"]}
               /\ UNCHANGED <<data, dom, shown>>
          ELSE /\ data' = <<d>>
               /\ dom' = Render(this, d)
               /\ shown' = [exec |-> e.id, config |-> <<Config(this)>>]
               /\ errors' =
                    IF MeshThrows(d)
                      THEN errors \cup
                        {[exec |-> e.id, kind |-> "TypeError", at |-> "execute"]}
                      ELSE errors
     /\ UNCHANGED <<topo, files, insts, app, clickCount, nexec, requested,
                    nset>>

Next ==
  \/ \E color \in Colors : ColorChange(color)
  \/ \E func \in Funcs : FuncChange(func)
  \/ \E level \in Levels : StatisLevelChange(level)
  \/ \E title \in TitleVals : Submit(title)
  \/ Toggle
  \/ \E e \in inflight : JsonLoaded(e)
  \/ \E e \in inflight : CsvLoaded(e)
  \/ \E e \in inflight : LoadFailed(e)

Spec == Init /\ [][Next]_vars

\* ------------------------------------------- the class used by its methods

\* the values a caller of the setters passes
Urls == {PopulationUrl, UnemploymentUrl}
IndexColNames == {"FIPS", "id"}
DataColNames == {"Births_2016", "rate"}

\* a setter assigns one field of instance i and returns; nothing is loaded
\* or drawn
Set(is) ==
  /\ nset < MaxSet
  /\ nset' = nset + 1
  /\ insts' = is
  /\ UNCHANGED <<topo, files, app, clickCount, inflight, nexec, requested, csv,
                 data, dom, shown, errors>>

setFileUrl(i, fileUrl) == Set([insts EXCEPT ![i].fileUrl = fileUrl])

setindexColName(i, indexColName) ==
  Set([insts EXCEPT ![i].indexColName = indexColName])

setDataColName(i, dataColName) ==
  Set([insts EXCEPT ![i].dataColName = dataColName])

setStatisLevel(i, level) == Set([insts EXCEPT ![i].statisLevel = level])

\* execute() called on instance i as it is
ExecuteCall(i) ==
  /\ Execute(insts, i)
  /\ UNCHANGED <<topo, files, app, clickCount, csv, data, dom, shown, errors,
                 nset>>

NextApi ==
  \/ \E i \in DOMAIN insts, fileUrl \in Urls : setFileUrl(i, fileUrl)
  \/ \E i \in DOMAIN insts, indexColName \in IndexColNames :
       setindexColName(i, indexColName)
  \/ \E i \in DOMAIN insts, dataColName \in DataColNames :
       setDataColName(i, dataColName)
  \/ \E i \in DOMAIN insts, level \in Levels : setStatisLevel(i, level)
  \/ \E i \in DOMAIN insts : ExecuteCall(i)
  \/ \E e \in inflight : JsonLoaded(e)
  \/ \E e \in inflight : CsvLoaded(e)
  \/ \E e \in inflight : LoadFailed(e)

\* the instance of the page, its setters and execute() called in any order
\* while its loads come back
SpecApi == Init /\ [][NextApi]_vars

\* ------------------------------------------------------------ claims

\* the geometries of the collection a fulfilled getJson() selected
Selected(d) == d.us[d.statisLevel.key]

\* the key the codec gives geometry g of d's selected collection
KeyOf(d, g) == CallFunc(d.statisLevel, g.id)

\* the latest request was drawn or is being loaded: it did not fail
LatestDidNotFail == \A err \in errors : err.exec # nexec

\* C1 (as claimed): once every load has ended, and the latest request did
\* not fail, the map on the page is the one of the latest requested
\* configuration: a superseded request's result is never what stays drawn.
C1_StaleResponseGuard ==
  (inflight = {} /\ LatestDidNotFail /\ shown.exec # 0)
    => shown.config = <<requested>>

\* C2: the joined values getJson() gives (usStateID) are exactly as many as
\* the geometries of the selected collection.
C2_JoinLength ==
  \A i \in DOMAIN data :
    Len(data[i].usStateID) = Len(Selected(data[i]))

\* C2's case: a join over two or more geometries, one of them without value
C2_Witness ==
  /\ data # <<>>
  /\ Len(Selected(data[1])) >= 2
  /\ \E i \in DOMAIN data[1].usStateID : data[1].usStateID[i] = Undefined

\* C3: the i-th joined value comes from the i-th geometry: it is the value
\* the Dataset holds under codec(id_i) when that is a key of the Dataset, and
\* undefined (missing) when it is not.
C3_JoinRoundTrip ==
  \A n \in DOMAIN data :
    LET d == data[n]
    IN /\ DOMAIN d.usStateID = DOMAIN Selected(d)
       /\ \A i \in DOMAIN Selected(d) :
            IF KeyOf(d, Selected(d)[i]) \in MapKeys(d.column)
              THEN \E j \in DOMAIN d.column :
                     /\ d.column[j].k = KeyOf(d, Selected(d)[i])
                     /\ d.usStateID[i] = d.column[j].v
              ELSE d.usStateID[i] = Undefined

\* C3's case: a join in which a first geometry has a number and a later one
\* has none
C3_Witness ==
  /\ data # <<>>
  /\ \E i, j \in DOMAIN data[1].usStateID :
       /\ i < j
       /\ IsNum(data[1].usStateID[i])
       /\ data[1].usStateID[j] = Undefined
       /\ KeyOf(data[1], Selected(data[1])[i]) \in MapKeys(data[1].column)
       /\ KeyOf(data[1], Selected(data[1])[j]) \notin MapKeys(data[1].column)

\* the factor the claimed codec multiplies by
Factor(d) == IF d.statisLevel.key = "states" THEN 1000 ELSE 1

\* C4 (as claimed): the codec maps every raw identifier to its parsed
\* integer, times 1000 for "states" and unchanged for "counties".
C4_CodecEveryIdentifier ==
  \A n \in DOMAIN data :
    \A i \in DOMAIN Selected(data[n]) :
      KeyOf(data[n], Selected(data[n])[i]) =
        Times(ParseInt(Selected(data[n])[i].id), Factor(data[n]))

\* C4 (amended): the codec maps a raw identifier that is not falsy to its
\* parsed integer, times 1000 for "states" and unchanged for "counties", and
\* maps a falsy identifier (absent, empty, 0) to 0; a "states" feature "1"
\* joined with a Dataset of keys {1001, 1003} has no value.
C4_Codec ==
  \A n \in DOMAIN data :
    LET d == data[n]
    IN \A i \in DOMAIN Selected(d) :
         LET id == Selected(d)[i].id
         IN /\ ~Falsy(id) => KeyOf(d, Selected(d)[i]) =
                               Times(ParseInt(id), Factor(d))
            /\ Falsy(id) => KeyOf(d, Selected(d)[i]) = Num(0)
            /\ ( /\ d.statisLevel.key = "states"
                 /\ id = Str(<<"1">>)
                 /\ MapKeys(d.column) = {Num(1001), Num(1003)} )
               => d.usStateID[i] = Undefined

\* C4's case: "states", a feature "1", a Dataset of keys {1001, 1003}
C4_Witness ==
  /\ data # <<>>
  /\ data[1].statisLevel.key = "states"
  /\ MapKeys(data[1].column) = {Num(1001), Num(1003)}
  /\ \E i \in DOMAIN Selected(data[1]) :
       /\ Selected(data[1])[i].id = Str(<<"1">>)
       /\ KeyOf(data[1], Selected(data[1])[i]) = Num(1000)
       /\ data[1].usStateID[i] = Undefined

\* C5 (as claimed): no map is drawn for a granularity other than "states"
\* and "counties": such an execute() ends in an error.
C5_UnsupportedGranularity ==
  \A n \in DOMAIN shown.config :
    shown.config[n].statisLevel \in {"states", "counties"}

\* the parsed key and the parsed value of row i of the latest csv
RowKey(c, i) == ParseInt(Cell(c.rows[i], c.indexColName))
RowValue(c, i) == ParseFloat(Cell(c.rows[i], c.dataColName))

\* the rows of the latest csv whose key and value both parse
GoodRows(c) == {i \in DOMAIN c.rows : IsNum(RowKey(c, i)) /\ IsNum(RowValue(c, i))}

ValueOf(d, i) == MapGet(d.column, KeyOf(d, Selected(d)[i]))

\* feature i of the drawn collection is missing: its key is not in the Dataset
Missing(d, i) == KeyOf(d, Selected(d)[i]) \notin MapKeys(d.column)

\* C7 (as claimed): the scale's lower bound is the least numeric joined value
\* when that is positive and 1 otherwise, so it is always positive.
C7_ScaleLowerBound ==
  \A n \in DOMAIN dom.legend :
    LET least == d3min(data[1].usStateID)
        lo == dom.legend[n].scale.lo
    IN /\ lo = IF IsNum(least) /\ least.n > 0 THEN least ELSE Num(1)
       /\ lo.n > 0

C9_TooltipLabel ==
  \A n \in DOMAIN data :
    \A i \in DOMAIN dom.usMap :
      dom.usMap[i].title =
        <<Selected(data[n])[i].name, ", ">> \o
          (IF Missing(data[n], i) THEN <<"no data">>
           ELSE ToStr(ValueOf(data[n], i)))

\* values a scale may be asked about
ScaleInputs == {Undefined, NaN, Num(0), Num(1), Num(7)}

\* C10 (as claimed): when no joined value is a number, the scale's domain is
\* [1, 1], the scale gives every input the colour it gives a missing value,
\* and the drawing raises no error.
C10_DegenerateScale ==
  \A n \in DOMAIN dom.legend :
    Numbers(data[1].usStateID) = {} =>
      /\ dom.legend[n].scale.lo = Num(1)
      /\ dom.legend[n].scale.hi = Num(1)
      /\ \A v \in ScaleInputs :
           ColorScale(dom.legend[n].scale, v) =
             ColorScale(dom.legend[n].scale, Undefined)
      /\ \A err \in errors : err.exec # shown.exec

\* the step is the failure of a fetch of execute() number n
FetchFails(n) ==
  \E err \in errors' \ errors : err.exec = n /\ err.kind = "fetch"

\* the step ends execute() number n with its join made (drawn, or a throw)
Joins(n) ==
  /\ \E e \in inflight : e.id = n
  /\ \A f \in inflight' : f.id # n
  /\ ~FetchFails(n)

C12_LoadsIndependent ==
  \A e \in inflight : e.phase = "csv"

\* C12 (amended): the tabular load of an execute() is sent only when its
\* topology load has been fulfilled, never before; the join is made only
\* when both loads have been fulfilled.
C12_LoadsInSequence ==
  [][/\ \A f \in inflight' :
          (f.phase = "csv" /\ f \notin inflight) =>
            \E e \in inflight : e.id = f.id /\ e.phase = "json"
     /\ \A e \in inflight :
          Joins(e.id) => e.phase = "csv"]_vars

\* C12's case: one execute() has joined and drawn while a later one, its
\* topology loaded, waits for its tabular load
C12_Witness ==
  /\ data # <<>>
  /\ shown.exec = 1
  /\ \E e \in inflight : e.id = 2 /\ e.phase = "csv"

\* C13: a drawn map is drawn from one snapshot. The domain of the scale is
\* taken from the joined values; the fill of every feature is the colour of
\* its joined value (the codec and the Dataset of the join looked up again)
\* and its tooltip shows that value, whatever setters were called on the
\* instance while the loads were pending.
C13_SingleSnapshot ==
  (data # <<>> /\ dom.usMap # <<>>) =>
    LET d == data[1]
        scale == dom.legend[1].scale
    IN /\ Len(dom.usMap) = Len(Selected(d))
       /\ scale.lo = OrElse(d3min(d.usStateID), Num(1))
       /\ scale.hi = d3max(d.usStateID)
       /\ \A i \in DOMAIN dom.usMap :
            /\ dom.usMap[i].fill = ColorScale(scale, d.usStateID[i])
            /\ dom.usMap[i].title =
                 <<Selected(d)[i].name, ", ">> \o ToStr(d.usStateID[i])

\* C13's case: the first execute() was called for the states; setStatisLevel
\* was called while its loads were pending, and it drew the counties, some of
\* them with a value
C13_Witness ==
  /\ nexec = 1
  /\ shown.exec = 1
  /\ nset = 1
  /\ requested.statisLevel = "states"
  /\ data # <<>>
  /\ data[1].statisLevel.key = "counties"
  /\ \E i \in DOMAIN dom.usMap : IsNum(data[1].usStateID[i])

====
